---- MODULE Spec2Model ----
(***************************************************************************)
(* Model of scripts/prepare_release_docs.py: the release-docs synchronizer *)
(* that keeps CHANGELOG.md, README.md and the Welcome Tour "What's New"    *)
(* page consistent for a release tag.                                      *)
(*                                                                         *)
(* Text is modelled at the granularity the script's regular expressions    *)
(* work at:                                                                *)
(*   - a tag and a date are sequences of one-character strings;            *)
(*   - a bullet is a sequence of tokens, the first being the marker "- ";  *)
(*   - CHANGELOG.md and README.md are sequences of classified lines;       *)
(*   - the Swift source is a sequence of items, a TourPage block or other  *)
(*     code.                                                               *)
(***************************************************************************)
EXTENDS Integers, Sequences, FiniteSets, TLC

VARIABLES changelog, readme, welcome_src, last, call

vars == <<changelog, readme, welcome_src, last, call>>

(***************************************************************************)
(* Characters and strings                                                  *)
(***************************************************************************)
Digits == {"0", "1", "2", "3", "4", "5", "6", "7", "8", "9"}

Letters == {"a", "b", "e", "n", "t", "v", "x"}

\* Code point of a character (Python compares str by code point).
Ord(c) ==
    CASE c = " " -> 32
      [] c = "-" -> 45
      [] c = "." -> 46
      [] c = "0" -> 48
      [] c = "1" -> 49
      [] c = "2" -> 50
      [] c = "3" -> 51
      [] c = "4" -> 52
      [] c = "5" -> 53
      [] c = "6" -> 54
      [] c = "7" -> 55
      [] c = "8" -> 56
      [] c = "9" -> 57
      [] c = "a" -> 97
      [] c = "b" -> 98
      [] c = "e" -> 101
      [] c = "n" -> 110
      [] c = "t" -> 116
      [] c = "v" -> 118
      [] c = "x" -> 120

\* int() of one decimal digit.
DigitVal(c) == Ord(c) - Ord("0")

Min(a, b) == IF a < b THEN a ELSE b

Max(a, b) == IF a > b THEN a ELSE b

\* s[i:] of Python, i a 1-based position here.
From(s, i) == SubSeq(s, i, Len(s))

\* s[:n] of Python.
Take(s, n) == SubSeq(s, 1, Min(n, Len(s)))

Contains(s, x) == \E i \in 1..Len(s) : s[i] = x

\* list.index(x): position of the first occurrence.
IndexOf(s, x) == CHOOSE i \in 1..Len(s) : s[i] = x /\ \A j \in 1..(i - 1) : s[j] # x

RECURSIVE Concat(_)
\* "".join / list concatenation of a sequence of sequences.
Concat(ss) == IF ss = <<>> THEN <<>> ELSE Head(ss) \o Concat(Tail(ss))

RECURSIVE StrLess(_, _)
\* a < b on Python str: lexicographic by code point, a proper prefix is smaller.
StrLess(a, b) ==
    IF b = <<>> THEN FALSE
    ELSE IF a = <<>> THEN TRUE
    ELSE IF Ord(Head(a)) # Ord(Head(b)) THEN Ord(Head(a)) < Ord(Head(b))
    ELSE StrLess(Tail(a), Tail(b))

RECURSIVE ToInt(_)
\* int() of a non-empty run of decimal digits.
ToInt(ds) ==
    IF ds = <<>> THEN 0 ELSE ToInt(SubSeq(ds, 1, Len(ds) - 1)) * 10 + DigitVal(ds[Len(ds)])

RECURSIVE DigitRunEnd(_, _)
\* Position just after the maximal run of digits of s that starts at i (\d+ is greedy).
DigitRunEnd(s, i) ==
    IF i <= Len(s) /\ s[i] \in Digits THEN DigitRunEnd(s, i + 1) ELSE i

(***************************************************************************)
(* normalize_tag                                                           *)
(***************************************************************************)
RECURSIVE LStrip(_)
LStrip(s) == IF s # <<>> /\ Head(s) = " " THEN LStrip(Tail(s)) ELSE s

RECURSIVE RStrip(_)
RStrip(s) ==
    IF s # <<>> /\ s[Len(s)] = " " THEN RStrip(SubSeq(s, 1, Len(s) - 1)) ELSE s

\* str.strip()
Strip(s) == RStrip(LStrip(s))

\* The empty sequence stands for the ValueError "Tag cannot be empty."
normalize_tag(raw) ==
    LET r == Strip(raw)
    IN  IF r = <<>> THEN <<>>
        ELSE IF Head(r) = "v" THEN r ELSE <<"v">> \o r

(***************************************************************************)
(* Version ordering                                                        *)
(***************************************************************************)
is_prerelease_tag(tag) == Contains(tag, "-")

\* [0-9A-Za-z.-]
LabelChar(c) == c \in Digits \cup Letters \cup {".", "-"}

\* re.fullmatch(r"v(\d+)\.(\d+)\.(\d+)(?:-([0-9A-Za-z.-]+))?", tag): the match as
\* [ok, g1, g2, g3, g4, has4]; has4 is FALSE when group 4 is None.
VersionMatch(tag) ==
    LET none == [ok |-> FALSE, g1 |-> <<>>, g2 |-> <<>>, g3 |-> <<>>, g4 |-> <<>>, has4 |-> FALSE]
        n  == Len(tag)
        e1 == DigitRunEnd(tag, 2)
        e2 == DigitRunEnd(tag, e1 + 1)
        e3 == DigitRunEnd(tag, e2 + 1)
    IN  IF n = 0 \/ tag[1] # "v" THEN none
        ELSE IF e1 = 2 \/ e1 > n \/ tag[e1] # "." THEN none
        ELSE IF e2 = e1 + 1 \/ e2 > n \/ tag[e2] # "." THEN none
        ELSE IF e3 = e2 + 1 THEN none
        ELSE IF e3 = n + 1
             THEN [ok |-> TRUE, g1 |-> SubSeq(tag, 2, e1 - 1), g2 |-> SubSeq(tag, e1 + 1, e2 - 1),
                   g3 |-> SubSeq(tag, e2 + 1, e3 - 1), g4 |-> <<>>, has4 |-> FALSE]
        ELSE IF tag[e3] = "-" /\ e3 < n /\ \A i \in (e3 + 1)..n : LabelChar(tag[i])
             THEN [ok |-> TRUE, g1 |-> SubSeq(tag, 2, e1 - 1), g2 |-> SubSeq(tag, e1 + 1, e2 - 1),
                   g3 |-> SubSeq(tag, e2 + 1, e3 - 1), g4 |-> From(tag, e3 + 1), has4 |-> TRUE]
        ELSE none

\* The sort key (major, minor, patch, stability_rank, prerelease_text).
parse_version_key(tag) ==
    LET m == VersionMatch(tag)
    IN  IF ~m.ok THEN <<0, 0, 0, 0, tag>>
        ELSE <<ToInt(m.g1), ToInt(m.g2), ToInt(m.g3), IF m.has4 THEN 0 ELSE 1, m.g4>>

\* a < b on the key tuples (Python tuple comparison).
KeyLess(a, b) ==
    IF a[1] # b[1] THEN a[1] < b[1]
    ELSE IF a[2] # b[2] THEN a[2] < b[2]
    ELSE IF a[3] # b[3] THEN a[3] < b[3]
    ELSE IF a[4] # b[4] THEN a[4] < b[4]
    ELSE StrLess(a[5], b[5])

RECURSIVE Unique(_, _)
\* The seen/unique loop: first occurrences, in order.
Unique(tags, seen) ==
    IF tags = <<>> THEN <<>>
    ELSE IF Head(tags) \in seen THEN Unique(Tail(tags), seen)
    ELSE <<Head(tags)>> \o Unique(Tail(tags), seen \cup {Head(tags)})

RECURSIVE InsertDesc(_, _)
\* x placed after every element whose key is not below x's: a stable descending insert.
InsertDesc(sorted, x) ==
    IF sorted = <<>> THEN <<x>>
    ELSE IF KeyLess(parse_version_key(Head(sorted)), parse_version_key(x))
         THEN <<x>> \o sorted
    ELSE <<Head(sorted)>> \o InsertDesc(Tail(sorted), x)

RECURSIVE SortDesc(_, _)
\* sorted(unique, key=parse_version_key, reverse=True): stable, equal keys keep their order.
SortDesc(todo, acc) ==
    IF todo = <<>> THEN acc ELSE SortDesc(Tail(todo), InsertDesc(acc, Head(todo)))

\* sorted_latest_tags with the forced tag prepended to the whole of top (top[:limit]).
sorted_latest_tags_KeepTop(tags, limit, ensure_tag) ==
    LET top == Take(SortDesc(Unique(tags, {}), <<>>), limit)
    IN  IF ensure_tag # <<>> /\ ~Contains(top, ensure_tag) THEN <<ensure_tag>> \o top ELSE top

\* ensure_tag = <<>> stands for None (and for "", equally falsy).
sorted_latest_tags(tags, limit, ensure_tag) ==
    LET unique  == Unique(tags, {})
        ordered == SortDesc(unique, <<>>)
        top     == Take(ordered, limit)
    IN  IF ensure_tag # <<>> /\ ~Contains(top, ensure_tag)
        THEN <<ensure_tag>> \o Take(top, Max(0, limit - 1))
        ELSE top

\* previous_release_tag without the prerelease skip: the heading right after the tag.
FirstCandidate(candidates, tag) == IF candidates = <<>> THEN <<>> ELSE Head(candidates)

RECURSIVE FirstNotSkipped(_, _)
\* The for loop of previous_release_tag; <<>> stands for None.
FirstNotSkipped(candidates, tag) ==
    IF candidates = <<>> THEN <<>>
    ELSE IF ~is_prerelease_tag(tag) /\ is_prerelease_tag(Head(candidates))
         THEN FirstNotSkipped(Tail(candidates), tag)
    ELSE Head(candidates)

\* previous_release_tag on the heading list extract_release_headings returns.
PreviousOf(headings, tag) ==
    IF ~Contains(headings, tag) THEN <<>>
    ELSE FirstNotSkipped(From(headings, IndexOf(headings, tag) + 1), tag)

(***************************************************************************)
(* CHANGELOG.md: a sequence of lines [k, tag, date, text]                  *)
(*   k = "head"    the line "## [<tag>] - <date>"                          *)
(*   k = "bracket" another line that starts with "## [" ("## [Unreleased]")*)
(*   k = "bullet"  a line that, stripped, starts with "- "; text = tokens  *)
(*   k = "text"    any other non-blank line; k = "blank" an empty line     *)
(***************************************************************************)
Blank == [k |-> "blank", tag |-> <<>>, date |-> <<>>, text |-> <<>>]

TextLine(s) == [k |-> "text", tag |-> <<>>, date |-> <<>>, text |-> <<s>>]

BulletLine(tokens) == [k |-> "bullet", tag |-> <<>>, date |-> <<>>, text |-> tokens]

HeadLine(tag, date) == [k |-> "head", tag |-> tag, date |-> date, text |-> <<>>]

BracketLine(s) == [k |-> "bracket", tag |-> <<>>, date |-> <<>>, text |-> <<s>>]

\* \d{4}-\d{2}-\d{2} matched against the whole rest of the heading line.
IsIsoDate(d) ==
    /\ Len(d) = 10
    /\ \A i \in {1, 2, 3, 4, 6, 7, 9, 10} : d[i] \in Digits
    /\ d[5] = "-"
    /\ d[8] = "-"

has_changelog_section(lines, tag) ==
    \E i \in 1..Len(lines) :
        lines[i].k = "head" /\ lines[i].tag = tag /\ IsIsoDate(lines[i].date)

\* A line "^## \[" matches.
StartsRelease(line) == line.k \in {"head", "bracket"}

RECURSIVE RStripLines(_)
\* str.rstrip() of the document: trailing blank lines go.
RStripLines(lines) ==
    IF lines # <<>> /\ lines[Len(lines)].k = "blank"
    THEN RStripLines(SubSeq(lines, 1, Len(lines) - 1))
    ELSE lines

RECURSIVE LStripLines(_)
LStripLines(lines) ==
    IF lines # <<>> /\ Head(lines).k = "blank" THEN LStripLines(Tail(lines)) ELSE lines

TodoBullet == <<"- ", "TODO">>

Template(tag, date) ==
    << HeadLine(tag, date), Blank,
       TextLine("### Added"), BulletLine(TodoBullet), Blank,
       TextLine("### Improved"), BulletLine(TodoBullet), Blank,
       TextLine("### Fixed"), BulletLine(TodoBullet), Blank >>

add_changelog_section(lines, tag, date) ==
    LET firsts == {i \in 1..Len(lines) : StartsRelease(lines[i])}
    IN  IF firsts = {}
        THEN LET stripped == RStripLines(lines)
             IN  stripped \o (IF stripped = <<>> THEN <<Blank, Blank>> ELSE <<Blank>>)
                          \o Template(tag, date)
        ELSE LET idx == CHOOSE i \in firsts : \A j \in firsts : i <= j
             IN  SubSeq(lines, 1, idx - 1) \o Template(tag, date) \o From(lines, idx)

\* [ok, body]; ok = FALSE stands for ValueError "Could not find CHANGELOG section".
extract_changelog_section(lines, tag) ==
    LET hits == {i \in 1..Len(lines) : lines[i].k = "head" /\ lines[i].tag = tag}
    IN  IF hits = {} THEN [ok |-> FALSE, body |-> <<>>]
        ELSE LET i     == CHOOSE h \in hits : \A j \in hits : h <= j
                 nexts == {j \in (i + 1)..Len(lines) : StartsRelease(lines[j])}
                 stop  == IF nexts = {} THEN Len(lines) + 1
                          ELSE CHOOSE j \in nexts : \A m \in nexts : j <= m
             IN  [ok |-> TRUE, body |-> RStripLines(LStripLines(SubSeq(lines, i + 1, stop - 1)))]

FallbackBullet == <<"- ", "See CHANGELOG.md entry.">>

summarize_section(body, limit) ==
    LET bullets == SelectSeq(body, LAMBDA l : l.k = "bullet")
    IN  IF bullets = <<>> THEN <<FallbackBullet>>
        ELSE Take([i \in 1..Len(bullets) |-> bullets[i].text], limit)

\* re.findall(r"^## \[(v[^\]]+)\] - \d{4}-\d{2}-\d{2}$"): the captured tags, top to bottom.
extract_release_headings(lines) ==
    LET heads == SelectSeq(lines, LAMBDA l :
                     l.k = "head" /\ Len(l.tag) >= 2 /\ l.tag[1] = "v" /\ IsIsoDate(l.date))
    IN  [i \in 1..Len(heads) |-> heads[i].tag]

previous_release_tag(lines, tag) == PreviousOf(extract_release_headings(lines), tag)

(***************************************************************************)
(* README.md: a sequence of lines [k, tag, text]                           *)
(*   k = "header"  the line "## Changelog"; with a blank line after it it  *)
(*                 is the anchor "## Changelog\n\n"                        *)
(*   k = "marker"  a line that starts with "Full release history:"         *)
(*   k = "sum"     the line "### <tag> (summary)"                          *)
(*   k = "h3"      another line that starts with "### "                    *)
(*   k = "ref"     one of the four release-reference lines; text = <<form>>*)
(*   k = "bullet", "text", "blank" as in the changelog                     *)
(***************************************************************************)
RBlank == [k |-> "blank", tag |-> <<>>, text |-> <<>>]

RText(s) == [k |-> "text", tag |-> <<>>, text |-> <<s>>]

RBullet(tokens) == [k |-> "bullet", tag |-> <<>>, text |-> tokens]

RHeader == [k |-> "header", tag |-> <<>>, text |-> <<>>]

RMarker == [k |-> "marker", tag |-> <<>>, text |-> <<>>]

RSum(tag) == [k |-> "sum", tag |-> tag, text |-> <<>>]

RH3(s) == [k |-> "h3", tag |-> <<>>, text |-> <<s>>]

RRef(form, tag) == [k |-> "ref", tag |-> tag, text |-> <<form>>]

\* The four re.sub calls: every reference line gets the new tag, other lines stay.
update_readme_release_refs(lines, tag) ==
    [i \in 1..Len(lines) |-> IF lines[i].k = "ref" THEN [lines[i] EXCEPT !.tag = tag] ELSE lines[i]]

\* Positions where "## Changelog\n\n" occurs.
HeaderAt(lines) ==
    {i \in 1..Len(lines) : lines[i].k = "header" /\ i < Len(lines) /\ lines[i + 1].k = "blank"}

\* readme.index(header) + len(header): the first line after the anchor (0 if absent).
ChangelogStart(lines) ==
    IF HeaderAt(lines) = {} THEN 0
    ELSE (CHOOSE i \in HeaderAt(lines) : \A j \in HeaderAt(lines) : i <= j) + 2

\* readme.index(marker, start): first marker line at or after start (0 if none).
MarkerFrom(lines, start) ==
    LET ms == {i \in start..Len(lines) : lines[i].k = "marker"}
    IN  IF ms = {} THEN 0 ELSE CHOOSE i \in ms : \A j \in ms : i <= j

\* A line "^### " matches.
StartsH3(line) == line.k \in {"sum", "h3"}

RECURSIVE RemoveSameTag(_, _)
\* same_tag_pattern.sub("", readme): every "### <tag> (summary)\n\n" and the text after it
\* up to the next line starting with "### ", or to the end of the document.
RemoveSameTag(lines, tag) ==
    IF lines = <<>> THEN <<>>
    ELSE IF Head(lines).k = "sum" /\ Head(lines).tag = tag
            /\ Len(lines) >= 2 /\ lines[2].k = "blank"
         THEN LET nexts == {j \in 3..Len(lines) : StartsH3(lines[j])}
              IN  IF nexts = {} THEN <<>>
                  ELSE RemoveSameTag(From(lines, CHOOSE j \in nexts : \A m \in nexts : j <= m), tag)
    ELSE <<Head(lines)>> \o RemoveSameTag(Tail(lines), tag)

\* "### <tag> (summary)\n\n<bullets>\n" plus the blank line that ends a block.
SummaryBlock(tag, bullets) ==
    <<RSum(tag), RBlank>> \o [i \in 1..Len(bullets) |-> RBullet(bullets[i])] \o <<RBlank>>

\* [ok, text]; ok = FALSE stands for ValueError "README missing '## Changelog' section".
upsert_readme_summary(lines, tag, bullets) ==
    IF HeaderAt(lines) = {} THEN [ok |-> FALSE, text |-> lines]
    ELSE LET removed   == RemoveSameTag(lines, tag)
             insert_at == ChangelogStart(removed)
         IN  IF insert_at = 0 THEN [ok |-> FALSE, text |-> removed]
             ELSE [ok |-> TRUE,
                   text |-> SubSeq(removed, 1, insert_at - 1) \o SummaryBlock(tag, bullets)
                            \o From(removed, insert_at)]

ReadmeWindow == 3

SummaryLimit == 5

\* The rebuild inserting its blocks after the header without cutting the old region out.
rebuild_Appending(lines, cl, current_tag, limit) ==
    LET start    == ChangelogStart(lines)
        top_tags == sorted_latest_tags(extract_release_headings(cl), limit, current_tag)
        blocks   == [i \in 1..Len(top_tags) |->
                        SummaryBlock(top_tags[i],
                            summarize_section(extract_changelog_section(cl, top_tags[i]).body,
                                              SummaryLimit))]
    IN  IF start = 0 \/ MarkerFrom(lines, start) = 0 THEN [ok |-> FALSE, text |-> lines]
        ELSE [ok |-> TRUE,
              text |-> SubSeq(lines, 1, start - 1) \o Concat(blocks) \o From(lines, start)]

\* [ok, text]; ok = FALSE stands for the ValueErrors of a missing anchor or section.
rebuild_readme_changelog_summaries(lines, cl, current_tag, limit) ==
    LET start    == ChangelogStart(lines)
        fail     == [ok |-> FALSE, text |-> lines]
        top_tags == sorted_latest_tags(extract_release_headings(cl), limit, current_tag)
        sections == [i \in 1..Len(top_tags) |-> extract_changelog_section(cl, top_tags[i])]
        blocks   == [i \in 1..Len(top_tags) |->
                        SummaryBlock(top_tags[i], summarize_section(sections[i].body, SummaryLimit))]
    IN  IF start = 0 THEN fail
        ELSE IF ~\E i \in 1..Len(lines) : lines[i].k = "marker" THEN fail
        ELSE IF \E i \in 1..Len(top_tags) : ~sections[i].ok THEN fail
        ELSE IF MarkerFrom(lines, start) = 0 THEN fail
        ELSE [ok |-> TRUE,
              text |-> SubSeq(lines, 1, start - 1) \o Concat(blocks)
                       \o From(lines, MarkerFrom(lines, start))]

(***************************************************************************)
(* PanelsAndHelpers.swift: a sequence of items [k, title, subtitle,        *)
(* bullets, icon, colors, toolbar]                                         *)
(*   k = "page"  a "        TourPage(\n ... \n        )," block: title is  *)
(*               the tokens of the title string, subtitle and each bullet  *)
(*               the tokens between the quotes, icon/colors/toolbar the    *)
(*               text of the three closing fields                          *)
(*   k = "code"  any other source text                                     *)
(***************************************************************************)
WhatsNewTitle == <<"What", "'s New in ", "This Release">>

SparklesIcon == "sparkles.rectangle.stack"

PageColors == "[Color(red: 0.40, green: 0.28, blue: 0.90), Color(red: 0.96, green: 0.46, blue: 0.55)]"

Page(title, subtitle, bullets, icon, colors, toolbar) ==
    [k |-> "page", title |-> title, subtitle |-> subtitle, bullets |-> bullets,
     icon |-> icon, colors |-> colors, toolbar |-> toolbar]

Code(s) ==
    [k |-> "code", title |-> <<s>>, subtitle |-> <<>>, bullets |-> <<>>,
     icon |-> "", colors |-> "", toolbar |-> ""]

RECURSIVE swift_string(_)
\* value.replace("\\", "\\\\").replace('"', '\\"') on the tokens of a string.
swift_string(value) ==
    IF value = <<>> THEN <<>>
    ELSE IF Head(value) = "\\" THEN <<"\\", "\\">> \o swift_string(Tail(value))
    ELSE IF Head(value) = "\"" THEN <<"\\", "\"">> \o swift_string(Tail(value))
    ELSE <<Head(value)>> \o swift_string(Tail(value))

RECURSIVE ExpandTemplate(_)
\* pattern.sub(new_block, ...) reads new_block as a replacement template: "\\" stands
\* for one backslash, a backslash before a quote stays as written.
ExpandTemplate(tokens) ==
    IF tokens = <<>> THEN <<>>
    ELSE IF Head(tokens) = "\\" /\ Len(tokens) >= 2 /\ tokens[2] = "\\"
         THEN <<"\\">> \o ExpandTemplate(Tail(Tail(tokens)))
    ELSE <<Head(tokens)>> \o ExpandTemplate(Tail(tokens))

\* The page's first lines match: TourPage(, title: "What[^\n]*This Release", subtitle, bullets: [
HeadMatches(item) ==
    /\ item.k = "page"
    /\ Len(item.title) >= 2
    /\ item.title[1] = "What"
    /\ item.title[Len(item.title)] = "This Release"

\* The page's last lines match: ], iconName, colors, toolbarItems: [], ),
TailMatches(item) ==
    /\ item.k = "page"
    /\ item.icon = SparklesIcon
    /\ item.colors = PageColors
    /\ item.toolbar = "[]"

\* pattern.search: the leftmost start, then the shortest body (.*? with re.S runs over
\* page boundaries up to the first matching tail). [found, from, to].
SearchBlock(src) ==
    LET starts == {i \in 1..Len(src) :
                      HeadMatches(src[i]) /\ \E j \in i..Len(src) : TailMatches(src[j])}
    IN  IF starts = {} THEN [found |-> FALSE, from |-> 0, to |-> 0]
        ELSE LET i  == CHOOSE a \in starts : \A b \in starts : a <= b
                 js == {j \in i..Len(src) : TailMatches(src[j])}
             IN  [found |-> TRUE, from |-> i, to |-> CHOOSE a \in js : \A b \in js : a <= b]

UiFallbackBullet == <<"See CHANGELOG.md for details">>

\* [ok, text]; ok = FALSE stands for ValueError "Could not find Welcome Tour ... block".
update_welcome_tour_release_page(src, tag, bullets, prev_tag) ==
    LET bullet_lines == IF bullets = <<>> THEN <<UiFallbackBullet>>
                        ELSE [i \in 1..Len(bullets) |-> swift_string(Tail(bullets[i]))]
        subtitle     == IF prev_tag # <<>>
                        THEN <<"Major changes since ">> \o prev_tag \o <<":">>
                        ELSE <<"Highlights for ">> \o tag \o <<":">>
        new_block    == Page(WhatsNewTitle, ExpandTemplate(swift_string(subtitle)),
                             [i \in 1..Len(bullet_lines) |-> ExpandTemplate(bullet_lines[i])],
                             SparklesIcon, PageColors, "[]")
        m            == SearchBlock(src)
    IN  IF ~m.found THEN [ok |-> FALSE, text |-> src]
        ELSE [ok |-> TRUE,
              text |-> SubSeq(src, 1, m.from - 1) \o <<new_block>> \o From(src, m.to + 1)]

(***************************************************************************)
(* main: one run of the script on the three files                          *)
(* A file is [exists, text]; read_text raises FileNotFoundError on a       *)
(* missing one.                                                            *)
(***************************************************************************)
File(text) == [exists |-> TRUE, text |-> text]

Missing == [exists |-> FALSE, text |-> <<>>]

\* dt.date.today().isoformat()
Today == <<"2", "0", "2", "6", "-", "0", "2", "-", "1", "2">>

UiLimit == 4

\* A run that writes the changelog as soon as the section is ensured, then raises.
Raised_ChangelogWritten(tag, check, err, orig, cand) ==
    [ran |-> TRUE, tag |-> tag, check |-> check, exit |-> 1, err |-> err,
     outdated |-> <<>>,
     writes |-> IF ~check /\ cand.changelog # orig.changelog THEN <<"CHANGELOG">> ELSE <<>>,
     orig |-> orig, cand |-> cand]

\* The outcome of a run that raised: exit status 1 from the __main__ handler, nothing written.
Raised(tag, check, err, orig, cand) ==
    [ran |-> TRUE, tag |-> tag, check |-> check, exit |-> 1, err |-> err,
     outdated |-> <<>>, writes |-> <<>>, orig |-> orig, cand |-> cand]

\* The comparisons of check mode with the Swift source left out.
OutdatedFiles_SkipWelcome(orig, cand) ==
    (IF cand.changelog # orig.changelog THEN <<"CHANGELOG">> ELSE <<>>)
    \o (IF cand.readme # orig.readme THEN <<"README">> ELSE <<>>)

\* The three comparisons of check mode, in the order the script appends to outdated_files.
OutdatedFiles(orig, cand) ==
    (IF cand.changelog # orig.changelog THEN <<"CHANGELOG">> ELSE <<>>)
    \o (IF cand.readme # orig.readme THEN <<"README">> ELSE <<>>)
    \o (IF cand.welcome # orig.welcome THEN <<"WELCOME">> ELSE <<>>)

\* The write_text calls of a run that reaches them, in order.
WriteOrder == <<"CHANGELOG", "README", "WELCOME">>

\* The file named doc after the writes of outcome o.
Written(o, doc, before) ==
    IF Contains(o.writes, doc)
    THEN (CASE doc = "CHANGELOG" -> o.cand.changelog
            [] doc = "README" -> o.cand.readme
            [] doc = "WELCOME" -> o.cand.welcome)
    ELSE before

\* The run ends with outcome o: its writes reach the files, the outcome is recorded.
Exit(o) ==
    \E out \in {o} :
        /\ last' = out
        /\ changelog' = Written(out, "CHANGELOG", changelog)
        /\ readme' = Written(out, "README", readme)
        /\ welcome_src' = Written(out, "WELCOME", welcome_src)
        /\ UNCHANGED call

\* The outcome of a run that reached line 296 with the candidate documents cand.
Completed(tag, check, orig, cand) ==
    IF check
    THEN [ran |-> TRUE, tag |-> tag, check |-> TRUE,
          exit |-> IF OutdatedFiles(orig, cand) # <<>> THEN 1 ELSE 0, err |-> "none",
          outdated |-> OutdatedFiles(orig, cand), writes |-> <<>>, orig |-> orig, cand |-> cand]
    ELSE [ran |-> TRUE, tag |-> tag, check |-> FALSE, exit |-> 0, err |-> "none",
          outdated |-> <<>>, writes |-> WriteOrder, orig |-> orig, cand |-> cand]

\* main() with arguments raw (the tag), date (<<>> when --date is not given) and check,
\* on the three files. Each local of main is bound once, in the order main computes it;
\* the outcome is [ran, tag, check, exit, err, outdated, writes, orig, cand], cand
\* holding the documents computed before the run ended.
main(raw, date, check) ==
    \E tag \in {normalize_tag(raw)},
       release_date \in {IF date # <<>> THEN date ELSE Today},
       orig \in {[changelog |-> changelog, readme |-> readme, welcome |-> welcome_src]} :
    IF tag = <<>> THEN Exit(Raised(tag, check, "invalid_tag", orig, orig))
    ELSE IF ~changelog.exists THEN Exit(Raised(tag, check, "missing_changelog", orig, orig))
    ELSE
    \E new_cl \in {IF ~has_changelog_section(changelog.text, tag)
                   THEN add_changelog_section(changelog.text, tag, release_date)
                   ELSE changelog.text} :
    \E section \in {extract_changelog_section(new_cl, tag)},
       cand1 \in {[orig EXCEPT !.changelog = File(new_cl)]} :
    IF ~section.ok THEN Exit(Raised(tag, check, "section_not_found", orig, cand1))
    ELSE IF ~readme.exists THEN Exit(Raised(tag, check, "missing_readme", orig, cand1))
    ELSE
    \E bullets \in {summarize_section(section.body, SummaryLimit)},
       refs \in {update_readme_release_refs(readme.text, tag)} :
    \E upserted \in {upsert_readme_summary(refs, tag, bullets)} :
    IF ~upserted.ok THEN Exit(Raised(tag, check, "readme_anchor", orig, cand1))
    ELSE
    \E rebuilt \in {rebuild_readme_changelog_summaries(upserted.text, new_cl, tag, ReadmeWindow)} :
    \E cand2 \in {[cand1 EXCEPT !.readme = File(rebuilt.text)]} :
    IF ~rebuilt.ok THEN Exit(Raised(tag, check, "readme_anchor", orig, cand1))
    ELSE IF ~welcome_src.exists THEN Exit(Raised(tag, check, "missing_welcome", orig, cand2))
    ELSE
    \E prev_tag \in {previous_release_tag(new_cl, tag)} :
    \E welcome \in {update_welcome_tour_release_page(welcome_src.text, tag,
                                                     Take(bullets, UiLimit), prev_tag)} :
    IF ~welcome.ok THEN Exit(Raised(tag, check, "block_not_found", orig, cand2))
    ELSE Exit(Completed(tag, check, orig, [cand2 EXCEPT !.welcome = File(welcome.text)]))

(***************************************************************************)
(* Documents and arguments the runs are explored on                        *)
(***************************************************************************)
V100 == <<"v", "1", ".", "0", ".", "0">>

V110 == <<"v", "1", ".", "1", ".", "0">>

V110b == <<"v", "1", ".", "1", ".", "0", "-", "b">>

V090 == <<"v", "0", ".", "9", ".", "0">>

V200 == <<"v", "2", ".", "0", ".", "0">>

V000a == <<"v", "0", ".", "0", ".", "0", "-", "a">>

V01 == <<"v", "0", "1", ".", "0", ".", "0">>

Vnext == <<"v", "n", "e", "x", "t">>

IsoDate == <<"2", "0", "2", "6", "-", "0", "1", "-", "0", "1">>

\* A --date value that is not of the form YYYY-MM-DD; argparse accepts any string.
LooseDate == <<"2", "0", "2", "6", "-", "1", "-", "1">>

\* A changelog without any release section.
ChangelogEmpty == <<TextLine("# Changelog"), Blank, TextLine("All notable changes."), Blank>>

\* A changelog with four sections, newest first, and an "## [Unreleased]" line.
ChangelogFour ==
    << TextLine("# Changelog"), Blank,
       BracketLine("## [Unreleased]"), Blank,
       HeadLine(V200, IsoDate), Blank,
       TextLine("### Added"), BulletLine(<<"- ", "Tabs">>),
       BulletLine(<<"- ", "Say ", "\"", "hi", "\"", " and ", "\\", "n">>), Blank,
       HeadLine(V110, IsoDate), Blank,
       BulletLine(<<"- ", "b1">>), BulletLine(<<"- ", "b2">>), BulletLine(<<"- ", "b3">>),
       BulletLine(<<"- ", "b4">>), BulletLine(<<"- ", "b5">>), BulletLine(<<"- ", "b6">>), Blank,
       HeadLine(V110b, IsoDate), Blank,
       TextLine("Beta build."), Blank,
       HeadLine(V100, IsoDate), Blank,
       BulletLine(<<"- ", "First">>), Blank >>

\* A README with only the two anchors.
ReadmeAnchors == <<RText("# Neon Vision Editor"), RBlank, RHeader, RBlank, RMarker>>

\* A README with reference lines, a stale summary block and sections after the marker.
ReadmeFull ==
    << RText("# Neon Vision Editor"), RRef("> Latest release: **", V090), RBlank,
       RHeader, RBlank,
       RSum(V090), RBlank, RBullet(<<"- ", "Old">>), RBlank,
       RMarker, RBlank,
       RH3("### Install"), RRef("git rev-parse --verify ", V090), RBlank >>

\* A README whose window is as a run for v1.1.0-b leaves it, with no "### " line after it.
ReadmeSynced ==
    << RHeader, RBlank >>
    \o SummaryBlock(V200, <<<<"- ", "Tabs">>, <<"- ", "Say ", "\"", "hi", "\"", " and ", "\\", "n">>>>)
    \o SummaryBlock(V110, <<<<"- ", "b1">>, <<"- ", "b2">>, <<"- ", "b3">>, <<"- ", "b4">>, <<"- ", "b5">>>>)
    \o SummaryBlock(V110b, <<FallbackBullet>>)
    \o << RMarker, RBlank, RText("License: MIT") >>

ReadmeNoHeader == <<RText("# Neon Vision Editor"), RBlank, RMarker>>

ReadmeNoMarker == <<RHeader, RBlank, RText("See CHANGELOG.md")>>

ReadmeMarkerFirst == <<RMarker, RBlank, RHeader, RBlank, RText("See CHANGELOG.md")>>

OtherPage == Page(<<"Welcome">>, <<"Start here">>, <<<<"Open a file">>>>, "sparkles", PageColors, "[]")

OldPage == Page(WhatsNewTitle, <<"Highlights for ", "v0.9.0", ":">>, <<<<"Old">>>>, SparklesIcon, PageColors, "[]")

WelcomeOne == <<Code("let pages = ["), OtherPage, OldPage, Code("]")>>

WelcomeTwo == <<Code("let pages = ["), OldPage, OtherPage, OldPage, Code("]")>>

\* The icon identifier of the page was edited: the block shape is gone.
WelcomeEdited ==
    << Code("let pages = ["),
       Page(WhatsNewTitle, <<"Highlights">>, <<<<"Old">>>>, "sparkles", PageColors, "[]"),
       Code("]") >>

\* An edited "What's New" page followed by another page that ends like the block.
WelcomeSpan ==
    << Code("let pages = ["),
       Page(WhatsNewTitle, <<"Highlights">>, <<<<"Old">>>>, "sparkles", PageColors, "[]"),
       Page(<<"Welcome">>, <<"Start here">>, <<<<"Open a file">>>>, SparklesIcon, PageColors, "[]"),
       Code("]") >>

InitialFiles ==
    { <<File(ChangelogFour), File(ReadmeFull), File(WelcomeOne)>>,
      <<File(ChangelogFour), File(ReadmeSynced), File(WelcomeTwo)>>,
      <<File(ChangelogFour), File(ReadmeAnchors), File(WelcomeSpan)>>,
      <<File(ChangelogEmpty), File(ReadmeAnchors), File(WelcomeOne)>>,
      <<Missing, File(ReadmeFull), File(WelcomeOne)>>,
      <<File(ChangelogFour), Missing, File(WelcomeOne)>>,
      <<File(ChangelogFour), File(ReadmeNoHeader), File(WelcomeOne)>>,
      <<File(ChangelogFour), File(ReadmeNoMarker), File(WelcomeOne)>>,
      <<File(ChangelogFour), File(ReadmeMarkerFirst), File(WelcomeOne)>>,
      <<File(ChangelogFour), File(ReadmeFull), Missing>>,
      <<File(ChangelogFour), File(ReadmeFull), File(WelcomeEdited)>>,
      <<File(ChangelogEmpty), File(ReadmeNoMarker), File(WelcomeOne)>>,
      <<File(ChangelogEmpty), File(ReadmeFull), File(WelcomeEdited)>> }

\* The positional argument: a tag with or without the prefix, or blank.
RawTags ==
    { <<"1", ".", "0", ".", "0">>, <<" ", "v", "1", ".", "1", ".", "0", "-", "b">>,
      V110, <<" ">> }

\* The --date argument: not given (<<>>), the day of the run, or a loose date.
DateArgs == {<<>>, Today, LooseDate}

\* Runs that add a section are explored while the changelog has fewer heading lines.
MaxSections == 3

NumHeads(lines) == Cardinality({i \in 1..Len(lines) : lines[i].k = "head"})

NoRun ==
    [ran |-> FALSE, tag |-> <<>>, check |-> FALSE, exit |-> 0, err |-> "none",
     outdated |-> <<>>, writes |-> <<>>,
     orig |-> [changelog |-> Missing, readme |-> Missing, welcome |-> Missing],
     cand |-> [changelog |-> Missing, readme |-> Missing, welcome |-> Missing]]

NoCall == [fn |-> "none"]

Init ==
    /\ \E f \in InitialFiles :
          /\ changelog = f[1]
          /\ readme = f[2]
          /\ welcome_src = f[3]
    /\ last = NoRun
    /\ call = NoCall

\* One invocation of the script.
Run(raw, date, check) ==
    /\ \/ NumHeads(changelog.text) < MaxSections
       \/ has_changelog_section(changelog.text, normalize_tag(raw))
    /\ main(raw, date, check)

Prepare == \E raw \in RawTags, date \in DateArgs : Run(raw, date, FALSE)

Check == \E raw \in RawTags, date \in DateArgs : Run(raw, date, TRUE)

Next == Prepare \/ Check

Spec == Init /\ [][Next]_vars

(***************************************************************************)
(* The version-ordering functions applied to drawn arguments, one call per  *)
(* behaviour                                                               *)
(***************************************************************************)
TagPool == {V100, V01, V110, V110b, V000a, Vnext}

\* Longest tag list drawn.
MaxTags == 3

\* Largest limit drawn.
MaxLimit == 3

TagSeqs == UNION {[1..n -> TagPool] : n \in 0..MaxTags}

\* A changelog whose headings are hs, top to bottom.
ChangelogOf(hs) ==
    <<TextLine("# Changelog"), Blank>>
    \o Concat([i \in 1..Len(hs) |-> <<HeadLine(hs[i], IsoDate), Blank>>])

InitPure ==
    /\ changelog = Missing
    /\ readme = Missing
    /\ welcome_src = Missing
    /\ last = NoRun
    /\ call = NoCall

CallSortedLatestTags ==
    /\ call = NoCall
    /\ \E tags \in TagSeqs, limit \in 0..MaxLimit, ensure_tag \in TagPool \cup {<<>>} :
          call' = [fn |-> "sorted_latest_tags", tags |-> tags, limit |-> limit,
                   ensure_tag |-> ensure_tag,
                   result |-> sorted_latest_tags(tags, limit, ensure_tag)]
    /\ UNCHANGED <<changelog, readme, welcome_src, last>>

CallPreviousReleaseTag ==
    /\ call = NoCall
    /\ \E hs \in TagSeqs, tag \in TagPool :
          call' = [fn |-> "previous_release_tag", headings |-> hs, tag |-> tag,
                   result |-> previous_release_tag(ChangelogOf(hs), tag)]
    /\ UNCHANGED <<changelog, readme, welcome_src, last>>

CallParseVersionKey ==
    /\ call = NoCall
    /\ \E a \in TagPool, b \in TagPool :
          call' = [fn |-> "parse_version_key", a |-> a, b |-> b,
                   ka |-> parse_version_key(a), kb |-> parse_version_key(b)]
    /\ UNCHANGED <<changelog, readme, welcome_src, last>>

NextPure == CallSortedLatestTags \/ CallPreviousReleaseTag \/ CallParseVersionKey

SpecPure == InitPure /\ [][NextPure]_vars

(***************************************************************************)
(* Properties                                                              *)
(***************************************************************************)
Range(s) == {s[i] : i \in 1..Len(s)}

NoDuplicates(s) == \A i, j \in 1..Len(s) : s[i] = s[j] => i = j

HasHyphen(t) == \E i \in 1..Len(t) : t[i] = "-"

KeyOf(t) == parse_version_key(t)

\* s lists, highest key first, n of the highest tags of the list tags (all of them when
\* the list has fewer than n different tags).
IsTop(s, tags, n) ==
    /\ NoDuplicates(s)
    /\ Range(s) \subseteq Range(tags)
    /\ Len(s) = Min(n, Cardinality(Range(tags)))
    /\ \A i, j \in 1..Len(s) : i < j => ~KeyLess(KeyOf(s[i]), KeyOf(s[j]))
    /\ \A t \in Range(tags) \ Range(s) : \A i \in 1..Len(s) : ~KeyLess(KeyOf(s[i]), KeyOf(t))

\* r is cur followed by n - 1 of the highest tags.
IsDisplaced(r, tags, n, cur) == r # <<>> /\ Head(r) = cur /\ IsTop(Tail(r), tags, n - 1)

\* The other tags of the list that sort at or above cur, and those that sort above it.
AtOrAbove(tags, cur) == {t \in Range(tags) \ {cur} : ~KeyLess(KeyOf(t), KeyOf(cur))}

Above(tags, cur) == {t \in Range(tags) : KeyLess(KeyOf(cur), KeyOf(t))}

\* The selection rule of the top-N selector for a call with a current tag.
SelectionRule(c) ==
    /\ NoDuplicates(c.result)
    /\ Len(c.result) <= c.limit
    /\ c.ensure_tag \in Range(c.result)
    /\ IsTop(c.result, c.tags, c.limit) \/ IsDisplaced(c.result, c.tags, c.limit, c.ensure_tag)
    /\ (c.ensure_tag \in Range(c.tags) /\ Cardinality(AtOrAbove(c.tags, c.ensure_tag)) < c.limit)
          => IsTop(c.result, c.tags, c.limit)
    /\ (c.ensure_tag \notin Range(c.tags) \/ Cardinality(Above(c.tags, c.ensure_tag)) >= c.limit)
          => IsDisplaced(c.result, c.tags, c.limit, c.ensure_tag)

\* C5 as claimed: for every tag sequence and every limit N, N = 0 and N = 1 included,
\* sorted_latest_tags(tags, N, current) is duplicate-free, has at most N tags and contains
\* current; it is the N highest tags in descending key order when current is among them,
\* and current followed by the N - 1 highest otherwise.
C5_AsClaimed ==
    (call.fn = "sorted_latest_tags" /\ call.ensure_tag # <<>>) => SelectionRule(call)

\* C5 amended: the rule holds for every limit N >= 1; for N = 0 the result is the single
\* tag current, one tag and not at most 0.
C5_SelectionRule ==
    (call.fn = "sorted_latest_tags" /\ call.ensure_tag # <<>>) =>
        IF call.limit >= 1 THEN SelectionRule(call) ELSE call.result = <<call.ensure_tag>>

\* A call where current is in the list but two tags sort above it: it displaces the
\* lower of the natural top 2.
C5_Witness ==
    /\ call.fn = "sorted_latest_tags"
    /\ call.limit = 2
    /\ call.ensure_tag \in Range(call.tags)
    /\ Cardinality(Above(call.tags, call.ensure_tag)) = 2
    /\ Len(call.result) = 2
    /\ Head(call.result) = call.ensure_tag

\* C6: the previous-release lookup returns the first heading after (the first) T that is
\* not skipped, a candidate being skipped iff it is a pre-release and T is stable; none
\* when T is absent, last, or every later heading is skipped. So a stable T never gets a
\* pre-release, and a pre-release T gets the heading right after it.
C6_PreviousRelease ==
    call.fn = "previous_release_tag" =>
        LET hs   == call.headings
            T    == call.tag
            at   == {i \in 1..Len(hs) : hs[i] = T}
            i0   == CHOOSE i \in at : \A j \in at : i <= j
            kept == {j \in (i0 + 1)..Len(hs) : ~(HasHyphen(hs[j]) /\ ~HasHyphen(T))}
        IN  /\ at = {} => call.result = <<>>
            /\ (at # {} /\ kept = {}) => call.result = <<>>
            /\ (at # {} /\ kept # {}) =>
                   call.result = hs[CHOOSE j \in kept : \A m \in kept : j <= m]
            /\ ~HasHyphen(T) => (call.result = <<>> \/ ~HasHyphen(call.result))
            /\ (HasHyphen(T) /\ at # {} /\ i0 < Len(hs)) => call.result = hs[i0 + 1]

\* A stable tag whose next heading is a pre-release: the lookup skips it.
C6_Witness ==
    /\ call.fn = "previous_release_tag"
    /\ Len(call.headings) = 3
    /\ call.headings[1] = call.tag
    /\ ~HasHyphen(call.tag)
    /\ HasHyphen(call.headings[2])
    /\ call.result = call.headings[3]

\* The tag matches vMAJOR.MINOR.PATCH[-label].
MatchesPattern(t) == VersionMatch(t).ok

SameNumbers(a, b) ==
    /\ MatchesPattern(a)
    /\ MatchesPattern(b)
    /\ \A i \in 1..3 : KeyOf(a)[i] = KeyOf(b)[i]

\* C7 as claimed: a tag that does not match the numeric pattern sorts strictly below
\* every tag that matches it (pre-releases of 0.0.0 included), and a stable tag sorts
\* strictly above every pre-release of the same major.minor.patch.
C7_AsClaimed ==
    call.fn = "parse_version_key" =>
        /\ (~MatchesPattern(call.a) /\ MatchesPattern(call.b)) => KeyLess(call.ka, call.kb)
        /\ (SameNumbers(call.a, call.b) /\ ~HasHyphen(call.a) /\ HasHyphen(call.b))
              => KeyLess(call.kb, call.ka)

Docs == {"CHANGELOG", "README", "WELCOME"}

DocOf(triple, d) ==
    CASE d = "CHANGELOG" -> triple.changelog
      [] d = "README" -> triple.readme
      [] d = "WELCOME" -> triple.welcome

\* The three files as they are on disk.
OnDisk == [changelog |-> changelog, readme |-> readme, welcome |-> welcome_src]

\* The documents a run would change.
Differing(o) == {d \in Docs : DocOf(o.cand, d) # DocOf(o.orig, d)}

\* C1: a run in check mode writes none of the three documents; when it raises no error it
\* exits 0 if and only if the three candidate documents equal their originals, otherwise
\* it exits non-zero and reports exactly the documents that differ; a changelog without
\* the tag's section counts as differing.
C1_CheckMode ==
    (last.ran /\ last.check) =>
        /\ last.writes = <<>>
        /\ OnDisk = last.orig
        /\ last.err = "none" =>
              /\ last.exit = 0 <=> Differing(last) = {}
              /\ last.exit # 0 => (Range(last.outdated) = Differing(last)
                                   /\ NoDuplicates(last.outdated))
              /\ last.exit = 0 => last.outdated = <<>>
              /\ ~has_changelog_section(last.orig.changelog.text, last.tag)
                     => "CHANGELOG" \in Range(last.outdated)

\* A check run that finds the changelog up to date and the other two documents stale.
C1_Witness ==
    /\ last.ran
    /\ last.check
    /\ last.err = "none"
    /\ last.exit = 1
    /\ last.outdated = <<"README", "WELCOME">>

\* C2 as claimed: after a normal-mode run for T that succeeds, the next run for T on the
\* files it wrote, in either mode, exits 0 and would change none of the three documents.
C2_AsClaimed ==
    [][(last.ran /\ ~last.check /\ last.exit = 0 /\ last'.tag = last.tag)
          => (last'.exit = 0 /\ last'.cand = last'.orig)]_vars

\* C3 as claimed: after any sequence of runs the changelog has at most one section heading
\* per tag.
C3_AsClaimed ==
    \A i, j \in 1..Len(changelog.text) :
        (changelog.text[i].k = "head" /\ changelog.text[j].k = "head"
         /\ changelog.text[i].tag = changelog.text[j].tag) => i = j

\* The lines of a README before its window, the window, and the lines from the marker on.
BeforeWindow(lines) == SubSeq(lines, 1, ChangelogStart(lines) - 1)

Window(lines) == SubSeq(lines, ChangelogStart(lines), MarkerFrom(lines, ChangelogStart(lines)) - 1)

FromMarker(lines) == From(lines, MarkerFrom(lines, ChangelogStart(lines)))

\* The tags of the summary blocks of a window, top to bottom.
BlockTags(window) ==
    LET sums == SelectSeq(window, LAMBDA l : l.k = "sum")
    IN  [i \in 1..Len(sums) |-> sums[i].tag]

\* The README the rebuild of the last run was given: references rewritten, tag upserted.
RebuildInput(o) ==
    upsert_readme_summary(
        update_readme_release_refs(o.orig.readme.text, o.tag), o.tag,
        summarize_section(extract_changelog_section(o.cand.changelog.text, o.tag).body,
                          SummaryLimit)).text

\* C4: after a successful normal-mode run the README window holds at most 3 summary
\* blocks, no two for one tag, one of them for the run's tag, every one for a tag with a
\* changelog section (blocks of earlier runs that are not selected again are gone); the
\* rebuild leaves the text before the header and from the marker on as it was given.
C4_Window ==
    (last.ran /\ ~last.check /\ last.exit = 0) =>
        /\ ChangelogStart(readme.text) > 0
        /\ MarkerFrom(readme.text, ChangelogStart(readme.text)) > 0
        /\ Len(BlockTags(Window(readme.text))) <= ReadmeWindow
        /\ NoDuplicates(BlockTags(Window(readme.text)))
        /\ last.tag \in Range(BlockTags(Window(readme.text)))
        /\ \A t \in Range(BlockTags(Window(readme.text))) :
               extract_changelog_section(changelog.text, t).ok
        /\ \A i \in 1..Len(Window(readme.text)) :
               Window(readme.text)[i].k \in {"sum", "blank", "bullet"}
        /\ BeforeWindow(readme.text) = BeforeWindow(RebuildInput(last))
        /\ FromMarker(readme.text) = FromMarker(RebuildInput(last))

\* A run for the lowest of four releases on a README with a stale block: the window holds
\* the run's tag and the two highest, and the stale block is gone.
C4_Witness ==
    /\ last.ran
    /\ ~last.check
    /\ last.exit = 0
    /\ NumHeads(changelog.text) = 4
    /\ last.tag = V100
    /\ \E i \in 1..Len(last.orig.readme.text) :
           last.orig.readme.text[i].k = "sum" /\ last.orig.readme.text[i].tag = V090
    /\ BlockTags(Window(readme.text)) = <<V100, V200, V110>>

RECURSIVE CountBlocks(_)
\* The number of times the "What's New" block shape occurs in the Swift source.
CountBlocks(src) ==
    IF ~SearchBlock(src).found THEN 0
    ELSE 1 + CountBlocks(From(src, SearchBlock(src).to + 1))

\* C8 as claimed: the rewrite of the Swift source fails whenever the block shape does not
\* occur exactly once, be it zero times or twice and more.
C8_AsClaimed ==
    (last.ran /\ last.err \in {"none", "block_not_found"}
     /\ CountBlocks(last.orig.welcome.text) # 1) => last.err = "block_not_found"

\* The tag is within the top N of the changelog's headings.
WithinTop(o) ==
    Contains(Take(SortDesc(Unique(extract_release_headings(o.cand.changelog.text), {}), <<>>),
                  ReadmeWindow), o.tag)

\* C9 as claimed: on a README with both anchors and a tag within the top N, the upsert
\* followed by the rebuild succeeds and gives the README the rebuild alone gives.
C9_AsClaimed ==
    (/\ last.ran
     /\ last.err \in {"none", "readme_anchor", "missing_welcome", "block_not_found"}
     /\ ChangelogStart(last.orig.readme.text) > 0
     /\ MarkerFrom(last.orig.readme.text, ChangelogStart(last.orig.readme.text)) > 0
     /\ WithinTop(last))
    => /\ last.err # "readme_anchor"
       /\ last.cand.readme.text =
              rebuild_readme_changelog_summaries(
                  update_readme_release_refs(last.orig.readme.text, last.tag),
                  last.cand.changelog.text, last.tag, ReadmeWindow).text

\* C10: a normal-mode run that raises an error has written nothing and leaves the three
\* documents as they were; a run that raises none writes the changelog, then the README,
\* then the Swift source.
C10_WriteOrder ==
    (last.ran /\ ~last.check) =>
        /\ last.err # "none" => (last.exit # 0 /\ last.writes = <<>> /\ OnDisk = last.orig)
        /\ last.err = "none" =>
              (last.exit = 0 /\ last.writes = <<"CHANGELOG", "README", "WELCOME">>
               /\ OnDisk = last.cand)

\* A run that templated a new changelog section and then found no block in the Swift
\* source: nothing is on disk.
C10_Witness ==
    /\ last.ran
    /\ ~last.check
    /\ last.err = "block_not_found"
    /\ last.cand.changelog # last.orig.changelog
    /\ last.cand.readme # last.orig.readme
    /\ OnDisk = last.orig
====
